---- MODULE Spec2Model ----
(***************************************************************************)
(* State-machine model of klippy/extras/flashforge_loadcell.py: the        *)
(* command/response correlator (FlashforgeLoadCell) and the periodic       *)
(* safety sampler (LoadCellSensor).                                        *)
(*                                                                         *)
(* Time is counted in reactor ticks of 0.2 s: the 0.6 s reply deadline is  *)
(* 3 ticks, the 0.2 s tare pause is 1 tick.                                *)
(***************************************************************************)
EXTENDS Integers, Sequences, FiniteSets, TLC

\* ------------------------------------------------------------------ bounds
\* The monotonic clock stops at MaxTime.
MaxTime == 3

\* ------------------------------------------------------- program constants
\* completion.wait(self.reactor.monotonic() + 0.6)
CallTimeout == 3
\* self.reactor.pause(self.reactor.monotonic() + 0.2)
TarePause == 1
\* reactor.NOW / reactor.NEVER as timer wake times
NOW == 0
NEVER == 9999

\* class Commands(Enum): the value of each member
Commands == {"H1", "H2", "H3", "H7", "TEST"}

\* The five MCU command names, in the order _handle_connect looks them up.
MCU_CMD_FLASHFORGE_H1 == "flashforge_loadcell_h1"
MCU_CMD_FLASHFORGE_H2 == "flashforge_loadcell_h2 weight=%u"
MCU_CMD_FLASHFORGE_H3 == "flashforge_loadcell_h3 weight=%u"
MCU_CMD_FLASHFORGE_H7 == "flashforge_loadcell_h7"
MCU_CMD_FLASHFORGE_TEST == "flashforge_loadcell_test_cmd cmd=%*s"

RequiredCmds ==
    << MCU_CMD_FLASHFORGE_H1, MCU_CMD_FLASHFORGE_H2, MCU_CMD_FLASHFORGE_H3,
       MCU_CMD_FLASHFORGE_H7, MCU_CMD_FLASHFORGE_TEST >>

McuCmdNames == {RequiredCmds[i] : i \in 1..Len(RequiredCmds)}

\* _MCU_CMD_MAP.get(name): the Commands member, or "" for None
MCU_CMD_MAP(name) ==
    CASE name = MCU_CMD_FLASHFORGE_H1 -> "H1"
      [] name = MCU_CMD_FLASHFORGE_H2 -> "H2"
      [] name = MCU_CMD_FLASHFORGE_H3 -> "H3"
      [] name = MCU_CMD_FLASHFORGE_H7 -> "H7"
      [] name = MCU_CMD_FLASHFORGE_TEST -> "TEST"
      [] OTHER -> ""

\* The tasks (greenlets) that run operator commands: Operator runs any of
\* them, the second task runs FLASHFORGE_GET_LOAD_CELL_WEIGHT.
Operator == "g1"
Callers == {Operator, "g2"}

\* ------------------------------------------------------------ MCUResponse
\* A raw text field of the params dict is <<tag, text>>:
\*   "none"  key absent (params.get gives None)
\*   "str"   a str
\*   "bytes" bytes that are valid UTF-8 for text
\*   "bad"   anything whose .decode('utf-8') raises
\* A raw value field is <<tag, n>>:
\*   "none"  key absent, "int" the int n, "numstr" a str of the digits of n,
\*   "junk"  a value int() rejects (ValueError / TypeError)

\* A decoder that forgets the default it was given
DecodeBlank(value, default) ==
    CASE value[1] = "str"   -> value[2]
      [] value[1] = "bytes" -> value[2]
      [] OTHER              -> ""

\* MCUResponse._decode(value, default)
Decode(value, default) ==
    CASE value[1] = "none"  -> default
      [] value[1] = "str"   -> value[2]
      [] value[1] = "bytes" -> value[2]
      [] OTHER              -> default

\* int(params.get('value', 0)) guarded by except (ValueError, TypeError)
DecodeInt(value) ==
    CASE value[1] = "none"   -> 0
      [] value[1] = "int"    -> value[2]
      [] value[1] = "numstr" -> value[2]
      [] OTHER               -> 0

\* MCUResponse.__init__(params)
MCUResponse(params) ==
    [ command_name |-> Decode(params.command, ""),
      status       |-> Decode(params.status, "unknown"),
      raw_response |-> Decode(params.raw_response, ""),
      value        |-> DecodeInt(params.value) ]

Params(c, s, r, v) == [command |-> c, status |-> s, raw_response |-> r, value |-> v]

Absent == <<"none", "">>
Str(s) == <<"str", s>>
Bytes(s) == <<"bytes", s>>
BadBytes == <<"bad", "">>

\* flashforge_tvoc.MCUResponse._decode(value, default)
TvocDecode(value, default) ==
    CASE value[1] = "none"  -> default
      [] value[1] = "str"   -> value[2]
      [] value[1] = "bytes" -> value[2]
      [] OTHER              -> default

\* int(x) returns for a raw value field
Convertible(value) == value[1] \in {"none", "int", "numstr"}

\* flashforge_tvoc.MCUResponse.__init__(params): one try block converts
\* tvoc, co2 and hcho, its bare except sets all three to 0.
TvocMCUResponse(tparams) ==
    LET fine == /\ Convertible(tparams.tvoc)
                /\ Convertible(tparams.co2)
                /\ Convertible(tparams.hcho)
        int(value) == IF value[1] = "none" THEN 0 ELSE value[2]
    IN  [ status |-> TvocDecode(tparams.status, "unknown"),
          tvoc   |-> IF fine THEN int(tparams.tvoc) ELSE 0,
          co2    |-> IF fine THEN int(tparams.co2) ELSE 0,
          hcho   |-> IF fine THEN int(tparams.hcho) ELSE 0 ]

\* Raw fields of a reply on either response channel.
RawCommands == {Absent, Str("H7"), Bytes("H7"), BadBytes}
RawStatuses == {Absent, Str("ok"), Bytes("error"), BadBytes}
RawTexts == {Absent, Bytes("E1")}
RawValues == {<<"none", 0>>, <<"int", 12>>, <<"numstr", 12>>, <<"junk", 99>>}
RawGas == {<<"none", 0>>, <<"int", 7>>, <<"junk", 99>>}

\* The replies DecodeSpec decodes: every combination of the fields above.
LoadCellDicts ==
    { [channel |-> "flashforge_loadcell_response",
       fields |-> Params(c, st, r, v)] :
         c \in RawCommands, st \in RawStatuses, r \in RawTexts,
         v \in RawValues }

TvocDicts ==
    { [channel |-> "flashforge_tvoc_response",
       fields |-> [status |-> st, tvoc |-> t, co2 |-> c, hcho |-> h]] :
         st \in RawStatuses, t \in RawGas, c \in RawGas, h \in RawGas }

\* Readings the firmware reports.
Readings == {-40, 4, 12, 40}

\* Well-formed replies: an ok reply carrying a reading, or an error reply
\* with diagnostic text.
CleanReplies ==
    {Params(Str("H7"), Str("ok"), Absent, <<"int", v>>) : v \in Readings}
    \cup
    {Params(Str(c), Str("ok"), Absent, <<"int", 40>>) : c \in {"H1", "H2"}}
    \cup
    {Params(Str(c), Str("error"), Str("E1"), <<"int", 40>>) :
        c \in {"H1", "H2", "H7"}}

\* Replies with absent or undecodable fields.
GarbledReplies ==
    { Params(Absent, Str("ok"), Absent, <<"int", 40>>),
      Params(BadBytes, Str("ok"), Absent, <<"int", 40>>),
      Params(Bytes("H7"), Bytes("ok"), Bytes("E1"), <<"numstr", 12>>),
      Params(Str("H7"), Absent, Absent, <<"int", 40>>),
      Params(Str("H7"), BadBytes, BadBytes, <<"int", 40>>),
      Params(Str("H7"), Str("ok"), Absent, <<"none", 0>>),
      Params(Str("H7"), Str("ok"), Absent, <<"junk", 0>>),
      Params(Str("XX"), Str("ok"), Absent, <<"int", 40>>) }

ReplyParams == CleanReplies \cup GarbledReplies

\* ------------------------------------------------------------------ state
VARIABLES
    now,                \* reactor.monotonic()
    phase,              \* klippy:connect progress
    fw_cmds,            \* commands the firmware advertises
    supported_cmds,     \* FlashforgeLoadCell.supported_cmds (keys)
    active_command,     \* FlashforgeLoadCell.active_command
    last_weight_grams,  \* FlashforgeLoadCell.last_weight_grams
    tare_threshold,     \* FlashforgeLoadCell.tare_threshold
    tare_timeout,       \* FlashforgeLoadCell.tare_timeout
    completion,         \* per task: the completion created by _send_and_wait
    pc,                 \* per task: where the task is suspended
    cmd_enum,           \* per task: _send_and_wait's cmd_enum
    wait_deadline,      \* per task: wake time of completion.wait / reactor.pause
    tare_deadline,      \* per task: cmd_LOAD_CELL_TARE's deadline
    tare_log,           \* per task: readings compared by the running tare
    result,             \* what the step just taken reported to the operator
    sent,               \* what the step just taken handed to cmd_obj.send
    handled,            \* what the reply handler did in the step just taken
    safety,             \* the safety action the step just taken invoked
    sample_interval,    \* LoadCellSensor.sample_interval
    check_only_when_printing,
    max_force,
    default_max_force,
    overload_action,
    default_overload_action,
    sample_timer,       \* wake time of LoadCellSensor.sample_timer
    callback,           \* LoadCellSensor._callback is set
    observed,           \* what the step just taken handed to the observer callback
    is_printing,        \* idle_timeout state == "Printing"
    is_paused,          \* pause_resume.is_paused
    is_shutdown,        \* printer.invoke_shutdown was called
    decode_params,      \* the params dict of the reply being decoded
    decoded,            \* the MCUResponse the load cell handler built of it
    last_tvoc_value,    \* FlashforgeTVOC.last_tvoc_value
    last_co2_value,     \* FlashforgeTVOC.last_co2_value
    last_hcho_value,    \* FlashforgeTVOC.last_hcho_value
    last_status,        \* FlashforgeTVOC.last_status
    unanswered          \* <<"late", cmd>>: the call that sent cmd timed out,
                        \* <<"poll", cmd>>: the sampler sent cmd; and the
                        \* firmware's reply to it has not arrived

loadcell_vars ==
    << active_command, last_weight_grams, supported_cmds, tare_threshold,
       tare_timeout >>
task_vars ==
    << completion, pc, cmd_enum, wait_deadline, tare_deadline, tare_log >>
policy_vars ==
    << max_force, default_max_force, overload_action, default_overload_action,
       sample_interval, check_only_when_printing >>
sensor_vars == << sample_timer, callback >>
env_vars == << is_printing, is_paused, is_shutdown >>

event_vars == << result, observed, sent, handled, safety >>
tvoc_vars ==
    << last_tvoc_value, last_co2_value, last_hcho_value, last_status >>
decode_vars == << decode_params, decoded, tvoc_vars >>

vars ==
    << now, phase, fw_cmds, loadcell_vars, task_vars, policy_vars,
       sensor_vars, env_vars, event_vars, decode_vars, unanswered >>

\* active_command = None
None == [cmd |-> "", completion |-> ""]

\* An unresolved completion holds no result: <<>>; a resolved one <<response>>.
Unresolved == <<>>

\* The step reported nothing to an operator.
NoOutcome ==
    [task |-> "", kind |-> "none", cmd |-> "", status |-> "", raw |-> "",
     value |-> 0, wrap |-> "", log |-> <<>>]

\* A step that is no run of the reply handler or of the sampler.
Quiet == observed' = <<>> /\ handled' = "" /\ safety' = ""

\* A step that reports nothing and transmits nothing.
Silent == result' = NoOutcome /\ sent' = <<>> /\ Quiet


\* printer.command_error raised by _send_and_wait / _handle_mcu_error
CommandError(kind, cmd, status, raw) ==
    [NoOutcome EXCEPT !.kind = kind, !.cmd = cmd, !.status = status,
                      !.raw = raw]

\* The response _send_and_wait returned to its caller.
Returned(response) ==
    [NoOutcome EXCEPT !.kind = "ok", !.cmd = response.command_name,
                      !.status = response.status,
                      !.raw = response.raw_response,
                      !.value = response.value]

\* --------------------------------------------------------- configuration
Firmwares == {McuCmdNames, McuCmdNames \ {MCU_CMD_FLASHFORGE_H7}}
TareThresholds == {5}
TareTimeouts == {0, 3}
SampleIntervals == {1}
ConfigMaxForces == {12}
OverloadActions == {"shutdown", "pause"}
\* FORCE / ACTION / WEIGHT parameters operators type
Forces == {-1, 12, 40}
ActionParams == {"shutdown", "pause", "halt"}
Weights == {500}

\* The objects as their constructors leave them.
Constructed ==
    /\ now = 0
    /\ phase = "start"
    /\ fw_cmds \in Firmwares
    /\ supported_cmds = {}
    /\ active_command = None
    /\ last_weight_grams = 0
    /\ tare_threshold \in TareThresholds
    /\ tare_timeout \in TareTimeouts
    /\ completion = [g \in Callers |-> Unresolved]
    /\ pc = [g \in Callers |-> "idle"]
    /\ cmd_enum = [g \in Callers |-> ""]
    /\ wait_deadline = [g \in Callers |-> 0]
    /\ tare_deadline = [g \in Callers |-> 0]
    /\ tare_log = [g \in Callers |-> <<>>]
    /\ result = NoOutcome
    /\ sent = <<>>
    /\ handled = ""
    /\ safety = ""
    /\ sample_interval \in SampleIntervals
    /\ check_only_when_printing \in BOOLEAN
    /\ max_force \in ConfigMaxForces
    /\ default_max_force = max_force
    /\ overload_action \in OverloadActions
    /\ default_overload_action = overload_action
    /\ sample_timer = NEVER
    /\ callback = FALSE
    /\ observed = <<>>
    /\ is_printing = FALSE
    /\ is_paused = FALSE
    /\ is_shutdown = FALSE
    /\ decoded = <<>>
    /\ last_tvoc_value = 0
    /\ last_co2_value = 0
    /\ last_hcho_value = 0
    /\ last_status = "unknown"

\* No reply is being decoded field by field.
NoParams == <<>>

\* unanswered is a history variable of the firmware's side. A specification
\* that starts it at {} records in it the commands still to be answered; one
\* that starts it at NotTracked keeps no such record.
NotTracked == {<< "untracked", "" >>}

\* unanswered once the firmware was sent the command of entry
Track(entry) ==
    IF unanswered = NotTracked THEN unanswered ELSE unanswered \cup {entry}

Init ==
    /\ Constructed
    /\ decode_params = NoParams
    /\ unanswered = NotTracked

\* ---------------------------------------------------------------- connect
\* A registry that takes every required name, found or not
ResolvedAll(i) == McuCmdNames

\* The names _handle_connect stores before it returns or raises: every name
\* up to (not including) the first one try_lookup_command does not find.
RECURSIVE Resolved(_)
Resolved(i) ==
    IF i > Len(RequiredCmds) \/ RequiredCmds[i] \notin fw_cmds
    THEN {}
    ELSE {RequiredCmds[i]} \cup Resolved(i + 1)

\* The name the raise of _handle_connect reports: the first one
\* try_lookup_command does not find, "" when it finds them all.
RECURSIVE FirstMissing(_)
FirstMissing(i) ==
    IF i > Len(RequiredCmds) THEN ""
    ELSE IF RequiredCmds[i] \notin fw_cmds THEN RequiredCmds[i]
    ELSE FirstMissing(i + 1)

\* raise Exception("Required MCU command '{cmd_name}' is not available.")
ConnectError ==
    IF FirstMissing(1) = "" THEN NoOutcome
    ELSE [NoOutcome EXCEPT !.kind = "MissingCommand", !.cmd = FirstMissing(1)]

\* The body of FlashforgeLoadCell._handle_connect
HandleConnect ==
    /\ supported_cmds' = supported_cmds \cup Resolved(1)
    /\ result' = ConnectError
    /\ sent' = <<>>
    /\ Quiet

\* FlashforgeLoadCell._handle_connect
LoadCellConnect ==
    /\ phase = "start"
    /\ HandleConnect
    /\ phase' = IF McuCmdNames \subseteq fw_cmds THEN "loadcell" ELSE "failed"
    /\ UNCHANGED << decode_vars, unanswered >>
    /\ UNCHANGED << now, fw_cmds, active_command, last_weight_grams,
                    tare_threshold, tare_timeout, task_vars, policy_vars,
                    sensor_vars, env_vars >>

\* FlashforgeLoadCell._handle_connect called once more
LoadCellReconnect ==
    /\ phase # "start"
    /\ HandleConnect
    /\ UNCHANGED << decode_vars, unanswered >>
    /\ UNCHANGED << now, phase, fw_cmds, active_command, last_weight_grams,
                    tare_threshold, tare_timeout, task_vars, policy_vars,
                    sensor_vars, env_vars >>

\* LoadCellSensor._handle_connect: reactor.update_timer(sample_timer, NOW)
SensorConnect ==
    /\ phase = "loadcell"
    /\ phase' = "ready"
    /\ sample_timer' = NOW
    /\ Silent
    /\ UNCHANGED << decode_vars, unanswered >>
    /\ UNCHANGED << now, fw_cmds, loadcell_vars, task_vars, policy_vars,
                    callback, env_vars >>

\* LoadCellSensor.setup_callback
SetupCallback ==
    /\ ~callback
    /\ callback' = TRUE
    /\ Silent
    /\ UNCHANGED << decode_vars, unanswered >>
    /\ UNCHANGED << now, phase, fw_cmds, loadcell_vars, task_vars,
                    policy_vars, sample_timer, env_vars >>

\* ---------------------------------------------------------- reply handler
\* response.command_name == expected_cmd.value
Matches(response, ac) == response.command_name = ac.cmd

\* A completion that takes every result it is given
Overwrite(c, response) == <<response>>

\* if not completion.test(): completion.complete(response)
Complete(c, response) == IF c = Unresolved THEN <<response>> ELSE c

\* An unsolicited path that takes the value of any H7 reply
AnyStatus(response, weight) ==
    IF response.command_name = "H7" THEN response.value ELSE weight

\* The unsolicited path: an ok H7 reply becomes the last reading.
Unsolicited(response, weight) ==
    IF response.command_name = "H7" /\ response.status = "ok"
    THEN response.value
    ELSE weight

\* A matched path that also takes an ok H7 reply as the last reading
Folded(response, weight) == Unsolicited(response, weight)

\* The matched path returns before the unsolicited path: the last reading
\* is not assigned.
Consumed(response, weight) == weight

\* FlashforgeLoadCell._handle_flashforge_response(params)
HandleResponse(params) ==
    LET response == MCUResponse(params) IN
    IF active_command # None /\ Matches(response, active_command)
    THEN /\ completion' =
              [completion EXCEPT ![active_command.completion] =
                  Complete(@, response)]
         /\ handled' =
              IF completion[active_command.completion] = Unresolved
              THEN "resolved" ELSE "duplicate"
         /\ last_weight_grams' = Consumed(response, last_weight_grams)
    ELSE /\ last_weight_grams' = Unsolicited(response, last_weight_grams)
         /\ handled' =
              IF response.command_name = "H7" /\ response.status = "ok"
              THEN "reading" ELSE "dropped"
         /\ UNCHANGED completion

\* A message arrives on the flashforge_loadcell_response channel.
ResponseArrives ==
    /\ \E params \in ReplyParams : HandleResponse(params)
    /\ result' = NoOutcome
    /\ sent' = <<>>
    /\ observed' = <<>>
    /\ safety' = ""
    /\ UNCHANGED << decode_vars, unanswered >>
    /\ UNCHANGED << now, phase, fw_cmds, active_command, supported_cmds,
                    tare_threshold, tare_timeout, pc, cmd_enum, wait_deadline,
                    tare_deadline, tare_log, policy_vars, sensor_vars,
                    env_vars >>

\* The firmware's reply to a command it was sent by a call that has since
\* timed out (origin "late") or by the sampler (origin "poll") arrives.
ReplyArrives(origin) ==
    /\ \E o \in unanswered :
          /\ o[1] = origin
          /\ \E params \in ReplyParams :
                /\ MCUResponse(params).command_name = o[2]
                /\ HandleResponse(params)
          /\ unanswered' = unanswered \ {o}
    /\ result' = NoOutcome
    /\ sent' = <<>>
    /\ observed' = <<>>
    /\ safety' = ""
    /\ UNCHANGED decode_vars
    /\ UNCHANGED << now, phase, fw_cmds, active_command, supported_cmds,
                    tare_threshold, tare_timeout, pc, cmd_enum, wait_deadline,
                    tare_deadline, tare_log, policy_vars, sensor_vars,
                    env_vars >>

\* The reply to a call that timed out arrives.
LateReplyArrives ==
    /\ unanswered # {}
    /\ ReplyArrives("late")

\* The reply to a poll of the sampler arrives.
PollReplyArrives ==
    /\ unanswered # {}
    /\ ReplyArrives("poll")

\* The handler runs on the reply being decoded.
LoadCellReplyDecoded ==
    /\ decode_params \in LoadCellDicts
    /\ HandleResponse(decode_params.fields)
    /\ decoded' = << MCUResponse(decode_params.fields) >>
    /\ result' = NoOutcome
    /\ sent' = <<>>
    /\ observed' = <<>>
    /\ safety' = ""
    /\ UNCHANGED << decode_params, tvoc_vars >>
    /\ UNCHANGED unanswered
    /\ UNCHANGED << now, phase, fw_cmds, active_command, supported_cmds,
                    tare_threshold, tare_timeout, pc, cmd_enum, wait_deadline,
                    tare_deadline, tare_log, policy_vars, sensor_vars,
                    env_vars >>

\* FlashforgeTVOC._handle_tvoc_response(params)
HandleTvocResponse(tparams) ==
    LET r == TvocMCUResponse(tparams)
    IN  /\ last_tvoc_value' = r.tvoc
        /\ last_co2_value' = r.co2
        /\ last_hcho_value' = r.hcho
        /\ last_status' = r.status

\* A message arrives on the flashforge_tvoc_response channel.
TvocResponseArrives ==
    /\ decode_params \in TvocDicts
    /\ HandleTvocResponse(decode_params.fields)
    /\ handled' = "tvoc"
    /\ result' = NoOutcome
    /\ sent' = <<>>
    /\ observed' = <<>>
    /\ safety' = ""
    /\ UNCHANGED << decode_params, decoded >>
    /\ UNCHANGED unanswered
    /\ UNCHANGED << now, phase, fw_cmds, loadcell_vars, task_vars,
                    policy_vars, sensor_vars, env_vars >>

\* ---------------------------------------------------------- _send_and_wait
\* A command handed to cmd_obj.send
Msg(cmd, src, args) == [cmd |-> cmd, src |-> src, args |-> args]

\* An exception of cmd_obj.send (not a printer.command_error)
SendError(cmd) == [NoOutcome EXCEPT !.kind = "SendError", !.cmd = cmd]

\* A finally clause that leaves the slot as it finds it
Leaked == active_command

\* finally: self.active_command = None
Finally == None

\* A wait whose wake time is the time of the call
NoWait(t) == t

\* self.reactor.monotonic() + 0.6
WaitDeadline(t) == t + CallTimeout

\* A correlator that admits a call whatever the slot holds
NeverBusy(ac) == FALSE

\* if self.active_command: raise "Another G-Code command is already in progress"
Busy(ac) == ac # None

\* _send_and_wait from its entry to the point where it suspends in
\* completion.wait or raises. ac is self.active_command at entry, raises
\* tells whether cmd_obj.send raises. The result names the error raised
\* (NoOutcome when the task suspends), the slot as the call leaves it, what
\* it transmitted and the locals of the suspended call.
SendAndWaitEnter(g, ac, command_name, params_list, raises) ==
    LET cmd == MCU_CMD_MAP(command_name)
        keep == [error |-> NoOutcome, active |-> ac, sent |-> <<>>,
                 cmd_enum |-> "", deadline |-> 0]
    IN  IF Busy(ac)
        THEN [keep EXCEPT !.error = CommandError("Conflict", "", "", "")]
        ELSE IF command_name \notin supported_cmds \/ cmd = ""
        THEN [keep EXCEPT !.error = CommandError("NotFound", command_name, "", "")]
        ELSE IF raises
        THEN [keep EXCEPT !.error = SendError(cmd), !.active = Finally]
        ELSE [keep EXCEPT !.active = [cmd |-> cmd, completion |-> g],
                          !.sent = << Msg(cmd, g, params_list) >>,
                          !.cmd_enum = cmd,
                          !.deadline = WaitDeadline(now)]

\* The state a call leaves behind when it suspends or raises.
Entered(g, r) ==
    /\ active_command' = r.active
    /\ sent' = r.sent
    /\ completion' = [completion EXCEPT ![g] = Unresolved]
    /\ cmd_enum' = [cmd_enum EXCEPT ![g] = r.cmd_enum]
    /\ wait_deadline' = [wait_deadline EXCEPT ![g] = r.deadline]

\* completion.wait(waketime) returns: the completion is resolved or the
\* wake time is reached.
CanWake(g) == completion[g] # Unresolved \/ now >= wait_deadline[g]

\* An error that carries the status and drops the raw diagnostic text
StatusOnly(response, cmd_name_fallback) ==
    CommandError("RemoteError", response.command_name, response.status, "")

\* _handle_mcu_error(response, cmd_name_fallback)
HandleMcuError(response, cmd_name_fallback) ==
    CommandError("RemoteError",
                 IF response.command_name # "" THEN response.command_name
                                               ELSE cmd_name_fallback,
                 response.status, response.raw_response)

\* _send_and_wait from the return of completion.wait to its own return:
\* the response returned or the error raised.
SendAndWaitLeave(g, command_name) ==
    IF completion[g] = Unresolved
    THEN CommandError("Timeout", cmd_enum[g], "", "")
    ELSE IF completion[g][1].status # "ok"
    THEN HandleMcuError(completion[g][1], command_name)
    ELSE Returned(completion[g][1])

\* The firmware may still answer a call that gave up waiting.
Owes(g) ==
    unanswered' = IF completion[g] = Unresolved
                  THEN Track(<< "late", cmd_enum[g] >>)
                  ELSE unanswered

\* The locals of a call that returned or raised are gone.
Left(g) ==
    /\ completion' = [completion EXCEPT ![g] = Unresolved]
    /\ cmd_enum' = [cmd_enum EXCEPT ![g] = ""]
    /\ wait_deadline' = [wait_deadline EXCEPT ![g] = 0]

\* The error or response e, reported for task g.
By(g, e) == [e EXCEPT !.task = g]

sensor_frame == << policy_vars, sensor_vars, env_vars >>

\* ------------------------------------------------------- operator commands
\* cmd_GET_LOAD_CELL_WEIGHT up to its suspension
CmdGetLoadCellWeight(g) ==
    /\ pc[g] = "idle"
    /\ \E raises \in BOOLEAN :
          LET r == SendAndWaitEnter(g, active_command, MCU_CMD_FLASHFORGE_H7,
                                    <<>>, raises)
          IN  /\ Entered(g, r)
              /\ pc' = [pc EXCEPT ![g] =
                          IF r.error = NoOutcome THEN "get_weight" ELSE "idle"]
              /\ result' = IF r.error = NoOutcome THEN NoOutcome
                                                  ELSE By(g, r.error)
    /\ Quiet
    /\ UNCHANGED << decode_vars, unanswered >>
    /\ UNCHANGED << now, phase, fw_cmds, last_weight_grams, supported_cmds,
                    tare_threshold, tare_timeout, tare_deadline, tare_log,
                    sensor_frame >>

\* cmd_GET_LOAD_CELL_WEIGHT from the return of completion.wait
GetLoadCellWeightWake(g) ==
    /\ pc[g] = "get_weight"
    /\ CanWake(g)
    /\ LET res == SendAndWaitLeave(g, MCU_CMD_FLASHFORGE_H7)
       IN  /\ result' = By(g, res)
           /\ last_weight_grams' =
                 IF res.kind = "ok" THEN res.value ELSE last_weight_grams
    /\ active_command' = Finally
    /\ Left(g)
    /\ pc' = [pc EXCEPT ![g] = "idle"]
    /\ sent' = <<>>
    /\ Quiet
    /\ UNCHANGED decode_vars
    /\ Owes(g)
    /\ UNCHANGED << now, phase, fw_cmds, supported_cmds, tare_threshold,
                    tare_timeout, tare_deadline, tare_log, sensor_frame >>

\* cmd_LOAD_CELL_CALIBRATE up to its suspension
CmdLoadCellCalibrate(g) ==
    /\ pc[g] = "idle"
    /\ \E raises \in BOOLEAN, weight \in Weights :
          LET r == SendAndWaitEnter(g, active_command, MCU_CMD_FLASHFORGE_H2,
                                    <<weight>>, raises)
          IN  /\ Entered(g, r)
              /\ pc' = [pc EXCEPT ![g] =
                          IF r.error = NoOutcome THEN "calibrate" ELSE "idle"]
              /\ result' = IF r.error = NoOutcome THEN NoOutcome
                                                  ELSE By(g, r.error)
    /\ Quiet
    /\ UNCHANGED << decode_vars, unanswered >>
    /\ UNCHANGED << now, phase, fw_cmds, last_weight_grams, supported_cmds,
                    tare_threshold, tare_timeout, tare_deadline, tare_log,
                    sensor_frame >>

\* cmd_LOAD_CELL_CALIBRATE from the return of completion.wait
LoadCellCalibrateWake(g) ==
    /\ pc[g] = "calibrate"
    /\ CanWake(g)
    /\ result' = By(g, SendAndWaitLeave(g, MCU_CMD_FLASHFORGE_H2))
    /\ sent' = <<>>
    /\ Quiet
    /\ active_command' = Finally
    /\ Left(g)
    /\ pc' = [pc EXCEPT ![g] = "idle"]
    /\ UNCHANGED decode_vars
    /\ Owes(g)
    /\ UNCHANGED << now, phase, fw_cmds, last_weight_grams, supported_cmds,
                    tare_threshold, tare_timeout, tare_deadline, tare_log,
                    sensor_frame >>

\* ------------------------------------------------------------------- tare
\* raise gcmd.error(f"Tare step failed: {e}")
TareStepFailed(e) == [e EXCEPT !.wrap = "Tare step failed"]

\* except self.printer.command_error: any other exception propagates as is
TareRaise(e) == IF e.kind = "SendError" THEN e ELSE TareStepFailed(e)

\* raise gcmd.error(f"Tare failed to complete within {self.tare_timeout}s.")
TareTimeoutError == [NoOutcome EXCEPT !.kind = "TareTimeout"]

\* gcmd.respond_info(f"Tare successful. Final weight: {response.value}g")
TareSuccess(value) == [NoOutcome EXCEPT !.kind = "TareOk", !.value = value]

Abs(x) == IF x < 0 THEN -x ELSE x

\* A comparison of the signed reading
Signed(value) == value <= tare_threshold

\* abs(response.value) <= self.tare_threshold
WithinThreshold(value) == Abs(value) <= tare_threshold

\* A loop that never tests its deadline
NoDeadline(deadline) == TRUE

\* while self.reactor.monotonic() < deadline
BeforeDeadline(deadline) == now < deadline

\* deadline = self.reactor.monotonic() + self.tare_timeout
TareDeadline(t) == t + tare_timeout

\* The tare of task g ends reporting e; log holds the readings it compared.
TareEnds(g, e, log) ==
    /\ result' = By(g, [e EXCEPT !.log = log])
    /\ pc' = [pc EXCEPT ![g] = "idle"]
    /\ tare_deadline' = [tare_deadline EXCEPT ![g] = 0]
    /\ tare_log' = [tare_log EXCEPT ![g] = <<>>]

\* The tare of task g suspends at label.
TareSuspends(g, label, deadline, log) ==
    /\ result' = NoOutcome
    /\ pc' = [pc EXCEPT ![g] = label]
    /\ tare_deadline' = [tare_deadline EXCEPT ![g] = deadline]
    /\ tare_log' = [tare_log EXCEPT ![g] = log]

\* One test of the while condition, then either the loop body up to the
\* suspension of its H1 call or the raise after the loop.
TareIterate(g, deadline, log) ==
    IF BeforeDeadline(deadline)
    THEN \E raises \in BOOLEAN :
            LET r == SendAndWaitEnter(g, active_command, MCU_CMD_FLASHFORGE_H1,
                                      <<>>, raises)
            IN  /\ Entered(g, r)
                /\ IF r.error = NoOutcome
                   THEN TareSuspends(g, "tare_h1", deadline, log)
                   ELSE TareEnds(g, TareRaise(r.error), log)
    ELSE /\ TareEnds(g, TareTimeoutError, log)
         /\ sent' = <<>>
         /\ UNCHANGED << active_command, completion, cmd_enum, wait_deadline >>

\* cmd_LOAD_CELL_TARE up to its first suspension
CmdLoadCellTare(g) ==
    /\ pc[g] = "idle"
    /\ TareIterate(g, TareDeadline(now), <<>>)
    /\ Quiet
    /\ UNCHANGED << decode_vars, unanswered >>
    /\ UNCHANGED << now, phase, fw_cmds, last_weight_grams, supported_cmds,
                    tare_threshold, tare_timeout, sensor_frame >>

\* cmd_LOAD_CELL_TARE: the H1 call returns and the H7 call starts
TareH1Wake(g) ==
    /\ pc[g] = "tare_h1"
    /\ CanWake(g)
    /\ LET res == SendAndWaitLeave(g, MCU_CMD_FLASHFORGE_H1)
       IN  IF res.kind # "ok"
           THEN /\ TareEnds(g, TareRaise(res), tare_log[g])
                /\ active_command' = Finally
                /\ Left(g)
                /\ sent' = <<>>
           ELSE \E raises \in BOOLEAN :
                   LET r == SendAndWaitEnter(g, Finally, MCU_CMD_FLASHFORGE_H7,
                                             <<>>, raises)
                   IN  /\ Entered(g, r)
                       /\ IF r.error = NoOutcome
                          THEN TareSuspends(g, "tare_h7", tare_deadline[g],
                                            tare_log[g])
                          ELSE TareEnds(g, TareRaise(r.error), tare_log[g])
    /\ Quiet
    /\ UNCHANGED decode_vars
    /\ Owes(g)
    /\ UNCHANGED << now, phase, fw_cmds, last_weight_grams, supported_cmds,
                    tare_threshold, tare_timeout, sensor_frame >>

\* cmd_LOAD_CELL_TARE: the H7 call returns and the reading is compared
TareH7Wake(g) ==
    /\ pc[g] = "tare_h7"
    /\ CanWake(g)
    /\ active_command' = Finally
    /\ completion' = [completion EXCEPT ![g] = Unresolved]
    /\ cmd_enum' = [cmd_enum EXCEPT ![g] = ""]
    /\ LET res == SendAndWaitLeave(g, MCU_CMD_FLASHFORGE_H7)
           log == Append(tare_log[g], res.value)
       IN  IF res.kind # "ok"
           THEN /\ TareEnds(g, TareRaise(res), tare_log[g])
                /\ wait_deadline' = [wait_deadline EXCEPT ![g] = 0]
           ELSE IF WithinThreshold(res.value)
           THEN /\ TareEnds(g, TareSuccess(res.value), log)
                /\ wait_deadline' = [wait_deadline EXCEPT ![g] = 0]
           ELSE /\ TareSuspends(g, "tare_pause", tare_deadline[g], log)
                /\ wait_deadline' =
                      [wait_deadline EXCEPT ![g] = now + TarePause]
    /\ sent' = <<>>
    /\ Quiet
    /\ UNCHANGED decode_vars
    /\ Owes(g)
    /\ UNCHANGED << now, phase, fw_cmds, last_weight_grams, supported_cmds,
                    tare_threshold, tare_timeout, sensor_frame >>

\* cmd_LOAD_CELL_TARE: reactor.pause returns and the loop condition is tested
TarePauseWake(g) ==
    /\ pc[g] = "tare_pause"
    /\ now >= wait_deadline[g]
    /\ TareIterate(g, tare_deadline[g], tare_log[g])
    /\ Quiet
    /\ UNCHANGED << decode_vars, unanswered >>
    /\ UNCHANGED << now, phase, fw_cmds, last_weight_grams, supported_cmds,
                    tare_threshold, tare_timeout, sensor_frame >>

\* ---------------------------------------------------------------- sampler
\* A sampler that polls whatever the slot holds
AlwaysPoll == MCU_CMD_FLASHFORGE_H7 \in supported_cmds

\* if cmd_obj and not self.loadcell.active_command
PollAllowed == MCU_CMD_FLASHFORGE_H7 \in supported_cmds /\ active_command = None

\* weight > self.max_force
Overloaded(weight) == weight > max_force

\* A policy that acts on every overload
AnyOverload(weight) == weight > max_force

\* if not self.check_only_when_printing or is_printing
Actionable(weight) ==
    Overloaded(weight) /\ (~check_only_when_printing \/ is_printing)

\* return measured_time + self.sample_interval
NextSample(measured_time) == measured_time + sample_interval

\* if not self.pause_resume.is_paused: ... send_pause_command()
PauseRequested == ~is_paused

\* self._callback(estimated_print_time(measured_time), weight)
Observation(measured_time, weight) ==
    << [measured_time |-> measured_time, weight |-> weight] >>

\* LoadCellSensor._sample(eventtime). send_raises: cmd_obj.send raises;
\* est_raises: mcu.estimated_print_time raises. An exception that leaves
\* _sample leaves the timer unscheduled.
Sample(send_raises, est_raises) ==
    /\ sample_timer <= now
    /\ sent' = IF PollAllowed /\ ~send_raises
               THEN << Msg("H7", "poll", <<>>) >>
               ELSE <<>>
    /\ LET weight == last_weight_grams
       IN  IF Actionable(weight) /\ overload_action = "shutdown"
           THEN /\ is_shutdown' = TRUE
                /\ safety' = "shutdown"
                /\ sample_timer' = NEVER
                /\ observed' = <<>>
                /\ UNCHANGED is_paused
           ELSE /\ is_paused' =
                     IF Actionable(weight) /\ PauseRequested THEN TRUE
                                                             ELSE is_paused
                /\ safety' =
                     IF Actionable(weight) /\ PauseRequested THEN "pause"
                                                             ELSE ""
                /\ IF callback /\ est_raises
                   THEN /\ sample_timer' = NEVER
                        /\ observed' = <<>>
                   ELSE /\ sample_timer' = NextSample(now)
                        /\ observed' = IF callback
                                       THEN Observation(now, weight)
                                       ELSE <<>>
                /\ UNCHANGED is_shutdown
    /\ result' = NoOutcome
    /\ handled' = ""
    /\ UNCHANGED decode_vars
    /\ unanswered' = IF PollAllowed /\ ~send_raises
                     THEN Track(<< "poll", "H7" >>)
                     ELSE unanswered
    /\ UNCHANGED << now, phase, fw_cmds, loadcell_vars, task_vars, policy_vars,
                    callback, is_printing >>

\* A tick of the sampler timer
SampleTick ==
    \E send_raises \in BOOLEAN, est_raises \in BOOLEAN :
        Sample(send_raises, est_raises)

\* cmd_SET_LOADCELL_MAX_FORCE. force and action are <<>> when the parameter
\* is not given, <<v>> otherwise.

\* A validation that lets every ACTION through
AnyAction(a) == TRUE

\* str(x) if str(x) in ['shutdown', 'pause'] else None
ValidAction(a) == a \in {"shutdown", "pause"}

\* gcmd.get_int('FORCE', self.max_force, 0)
ValidForce(f) == f >= 0

\* What the command reports: gcmd.error or gcmd.respond_info
PolicyOutcome(kind) == [NoOutcome EXCEPT !.kind = kind, !.task = Operator]

\* A reset that keeps the action it finds
KeptAction == overload_action

\* self.overload_action = self.default_overload_action
RestoredAction == default_overload_action

SetLoadcellMaxForce(reset, force, action) ==
    IF reset = 1
    THEN /\ max_force' = default_max_force
         /\ overload_action' = RestoredAction
         /\ result' = PolicyOutcome("MaxForceReset")
    ELSE IF force # <<>> /\ ~ValidForce(force[1])
    THEN /\ UNCHANGED << max_force, overload_action >>
         /\ result' = PolicyOutcome("InvalidForce")
    ELSE IF action # <<>> /\ ~ValidAction(action[1])
    THEN /\ UNCHANGED << max_force, overload_action >>
         /\ result' = PolicyOutcome("InvalidAction")
    ELSE /\ max_force' = IF force = <<>> THEN max_force ELSE force[1]
         /\ overload_action' =
               IF action = <<>> THEN overload_action ELSE action[1]
         /\ result' = PolicyOutcome("MaxForceChanged")

\* The FORCE and ACTION parameters an operator may give
ForceParams == {<<>>} \cup {<<f>> : f \in Forces}
ActionArgs == {<<>>} \cup {<<a>> : a \in ActionParams}

CmdSetLoadcellMaxForce ==
    /\ \E reset \in {0, 1}, force \in ForceParams, action \in ActionArgs :
          SetLoadcellMaxForce(reset, force, action)
    /\ sent' = <<>>
    /\ Quiet
    /\ UNCHANGED << decode_vars, unanswered >>
    /\ UNCHANGED << now, phase, fw_cmds, loadcell_vars, task_vars,
                    default_max_force, default_overload_action,
                    sample_interval, check_only_when_printing, sensor_vars,
                    env_vars >>

\* ------------------------------------------------------------ environment
\* idle_timeout enters or leaves the "Printing" state.
JobChange ==
    /\ is_printing' = ~is_printing
    /\ Silent
    /\ UNCHANGED << decode_vars, unanswered >>
    /\ UNCHANGED << now, phase, fw_cmds, loadcell_vars, task_vars,
                    policy_vars, sensor_vars, is_paused, is_shutdown >>

\* The operator pauses or resumes the job (pause_resume.is_paused).
PauseChange ==
    /\ is_paused' = ~is_paused
    /\ Silent
    /\ UNCHANGED << decode_vars, unanswered >>
    /\ UNCHANGED << now, phase, fw_cmds, loadcell_vars, task_vars,
                    policy_vars, sensor_vars, is_printing, is_shutdown >>

\* A suspended task the reactor has to resume now.
Due(g) ==
    \/ pc[g] \in {"get_weight", "calibrate", "tare_h1", "tare_h7"} /\ CanWake(g)
    \/ pc[g] = "tare_pause" /\ now >= wait_deadline[g]

\* The monotonic clock advances once no timer or task is due.
Tick ==
    /\ now < MaxTime
    /\ sample_timer > now
    /\ \A g \in Callers : ~Due(g)
    /\ now' = now + 1
    /\ Silent
    /\ UNCHANGED << decode_vars, unanswered >>
    /\ UNCHANGED << phase, fw_cmds, loadcell_vars, task_vars, policy_vars,
                    sensor_vars, env_vars >>

\* --------------------------------------------------------- specifications
\* load_config creates the FlashforgeLoadCell; a LoadCellSensor exists only
\* when a sensor section asks the heaters factory for one.
\*
\* Spec: the correlator without a LoadCellSensor. The sensor's options keep
\* their defaults and take no part.
NoSensor == check_only_when_printing /\ overload_action = "shutdown"

SpecInit == Init /\ NoSensor

Next ==
    \/ LoadCellConnect
    \/ ResponseArrives
    \/ \E g \in Callers : CmdGetLoadCellWeight(g)
    \/ \E g \in Callers : GetLoadCellWeightWake(g)
    \/ CmdLoadCellCalibrate(Operator)
    \/ LoadCellCalibrateWake(Operator)
    \/ CmdLoadCellTare(Operator)
    \/ TareH1Wake(Operator)
    \/ TareH7Wake(Operator)
    \/ TarePauseWake(Operator)
    \/ Tick

Spec == SpecInit /\ [][Next]_vars

\* SensorSpec: the sampler with the policy it was configured with, the
\* reply handler, and the correlator held by GET_LOAD_CELL_WEIGHT calls of
\* the operator task. The sampler reads active_command and
\* last_weight_grams and writes neither.
SensorInit == Init /\ tare_timeout = 0

SensorNext ==
    \/ LoadCellConnect
    \/ SensorConnect
    \/ SetupCallback
    \/ ResponseArrives
    \/ CmdGetLoadCellWeight(Operator)
    \/ GetLoadCellWeightWake(Operator)
    \/ SampleTick
    \/ JobChange
    \/ PauseChange
    \/ Tick

SensorSpec == SensorInit /\ [][SensorNext]_vars

\* PolicySpec: the sampler under a policy the operator changes at run time
\* with FLASHFORGE_LOAD_CELL_SET_MAX_FORCE. Nobody but the sampler pauses
\* the job.
PolicyInit == Init /\ tare_timeout = 0

PolicyNext ==
    \/ LoadCellConnect
    \/ SensorConnect
    \/ ResponseArrives
    \/ CmdSetLoadcellMaxForce
    \/ SampleTick
    \/ JobChange
    \/ Tick

PolicySpec == PolicyInit /\ [][PolicyNext]_vars

\* ConnectSpec: the registry on either firmware, with a second run of the
\* connect handler, the calls of GET_LOAD_CELL_WEIGHT and
\* LOAD_CELL_CALIBRATE and the sampler poll.
ConnectInit == Init /\ tare_timeout = 0

ConnectNext ==
    \/ LoadCellConnect
    \/ LoadCellReconnect
    \/ SensorConnect
    \/ ResponseArrives
    \/ CmdGetLoadCellWeight(Operator)
    \/ GetLoadCellWeightWake(Operator)
    \/ CmdLoadCellCalibrate(Operator)
    \/ LoadCellCalibrateWake(Operator)
    \/ SampleTick
    \/ Tick

ConnectSpec == ConnectInit /\ [][ConnectNext]_vars

\* DecodeSpec: one reply, of any combination of present, absent and garbled
\* fields, decoded by the load cell handler or by the air-quality handler
\* while GET_LOAD_CELL_WEIGHT calls come and go.
DecodeInit ==
    /\ Constructed
    /\ NoSensor
    /\ fw_cmds = McuCmdNames
    /\ tare_timeout = 0
    /\ decode_params \in LoadCellDicts \cup TvocDicts
    /\ unanswered = NotTracked

DecodeNext ==
    \/ LoadCellConnect
    \/ LoadCellReplyDecoded
    \/ TvocResponseArrives
    \/ CmdGetLoadCellWeight(Operator)
    \/ GetLoadCellWeightWake(Operator)
    \/ Tick

DecodeSpec == DecodeInit /\ [][DecodeNext]_vars

\* WireSpec: GET_LOAD_CELL_WEIGHT calls and the sampler's polls with the
\* firmware's replies to timed-out calls and to polls arriving at any later
\* moment.
WireInit ==
    /\ Constructed
    /\ decode_params = NoParams
    /\ unanswered = {}
    /\ fw_cmds = McuCmdNames
    /\ tare_timeout = 0
    /\ ~check_only_when_printing
    /\ overload_action = "pause"

WireNext ==
    \/ LoadCellConnect
    \/ SensorConnect
    \/ ResponseArrives
    \/ LateReplyArrives
    \/ PollReplyArrives
    \/ CmdGetLoadCellWeight(Operator)
    \/ GetLoadCellWeightWake(Operator)
    \/ SampleTick
    \/ Tick

WireSpec == WireInit /\ [][WireNext]_vars

\* ------------------------------------------------------------- properties
\* Task g is suspended in the completion.wait of a _send_and_wait call.
InCall(g) == pc[g] \in {"get_weight", "calibrate", "tare_h1", "tare_h7"}

\* The PendingCall of task g, as _send_and_wait stores it in the slot.
PendingCall(g) == [cmd |-> cmd_enum[g], completion |-> g]

\* A step in which task g invokes _send_and_wait from outside any call.
Invokes(g) ==
    \/ CmdGetLoadCellWeight(g)
    \/ CmdLoadCellCalibrate(g)
    \/ CmdLoadCellTare(g) /\ BeforeDeadline(TareDeadline(now))
    \/ TarePauseWake(g) /\ BeforeDeadline(tare_deadline[g])

\* A step in which the completion.wait of task g returns.
Wakes(g) ==
    \/ GetLoadCellWeightWake(g)
    \/ LoadCellCalibrateWake(g)
    \/ TareH1Wake(g)
    \/ TareH7Wake(g)

\* C1: at most one call is awaiting a reply at any time and the slot holds
\* its PendingCall; a _send_and_wait invoked while another call is awaiting
\* raises the conflict error, transmits nothing and leaves the slot and the
\* awaiting call as they were.
OnePendingCall ==
    /\ Cardinality({g \in Callers : InCall(g)}) <= 1
    /\ \A g \in Callers : InCall(g) => active_command = PendingCall(g)

ConflictRejected ==
    \A g \in Callers :
        Invokes(g) /\ active_command # None =>
            /\ result'.kind = "Conflict"
            /\ result'.task = g
            /\ sent' = <<>>
            /\ active_command' = active_command
            /\ \A h \in Callers \ {g} :
                  /\ pc'[h] = pc[h]
                  /\ completion'[h] = completion[h]
                  /\ cmd_enum'[h] = cmd_enum[h]
                  /\ wait_deadline'[h] = wait_deadline[h]

C1_SingleSlot == []OnePendingCall /\ [][ConflictRejected]_vars

\* A call was just rejected while the call of another task is awaiting.
C1_Witness ==
    /\ result.kind = "Conflict"
    /\ active_command # None
    /\ active_command.completion # result.task
    /\ InCall(active_command.completion)

\* C2: the slot is non-empty only while the call that set it is suspended
\* in its wait; when a call has returned its reply or raised RemoteError,
\* Timeout or the exception of the transmission, the slot is empty.
C2_SlotCleared ==
    /\ active_command # None =>
          \E g \in Callers : InCall(g) /\ active_command = PendingCall(g)
    /\ result.kind \in {"ok", "RemoteError", "Timeout", "SendError", "TareOk"}
          => active_command = None

\* The transmission of a call just raised.
C2_Witness ==
    /\ result.kind = "SendError"
    /\ result.cmd = "H2"
    /\ active_command = None

\* C3: a call waits until CallTimeout after its invocation; when its wait
\* returns without a reply the time is that deadline, the call raises
\* Timeout naming its command and the slot is empty; no Timeout is raised
\* otherwise, and the next call is not rejected with the conflict error.
TimeoutAtDeadline ==
    \A g \in Callers :
        /\ InCall(g)' /\ (~InCall(g) \/ pc'[g] # pc[g]) =>
              wait_deadline'[g] = now + CallTimeout
        /\ Wakes(g) /\ completion[g] = Unresolved =>
              /\ now = wait_deadline[g]
              /\ result'.kind = "Timeout"
              /\ result'.task = g
              /\ result'.cmd = cmd_enum[g]
              /\ active_command' = None
        /\ result'.kind = "Timeout" /\ result'.task = g =>
              Wakes(g) /\ completion[g] = Unresolved /\ now = wait_deadline[g]
        /\ result.kind = "Timeout" /\ Invokes(g) => result'.kind # "Conflict"

WaitBounded ==
    \A g \in Callers :
        InCall(g) =>
            /\ now <= wait_deadline[g]
            /\ completion[g] = Unresolved /\ now = wait_deadline[g] =>
                  ENABLED Wakes(g)

C3_Timeout == []WaitBounded /\ [][TimeoutAtDeadline]_vars

\* A call issued at time 0 just raised Timeout.
C3_Witness ==
    /\ result.kind = "Timeout"
    /\ result.wrap = ""
    /\ now = CallTimeout
    /\ active_command = None

\* The reply p names no command, or not the command of the call in the slot.
Unmatched(p) ==
    active_command = None \/ MCUResponse(p).command_name # active_command.cmd

\* A step in which the reply handler runs on p.
Handles(p) == handled' # "" /\ HandleResponse(p)

\* C4: a reply that arrives while the slot is empty, or that names another
\* command than the awaiting call, resolves no call and raises nothing;
\* it sets last_weight_grams to its value when it is an H7 reply with
\* status ok and leaves last_weight_grams alone otherwise.
UnmatchedReply ==
    \A p \in ReplyParams :
        Unmatched(p) /\ Handles(p) =>
            /\ completion' = completion
            /\ active_command' = active_command
            /\ pc' = pc
            /\ result' = NoOutcome
            /\ LET r == MCUResponse(p)
               IN  last_weight_grams' =
                      IF r.command_name = "H7" /\ r.status = "ok"
                      THEN r.value
                      ELSE last_weight_grams

C4_Unmatched == [][UnmatchedReply]_vars

\* An ok H7 reply just became the last reading while a call of another
\* command is awaiting its reply.
C4_Witness ==
    /\ handled = "reading"
    /\ last_weight_grams = 12
    /\ active_command # None
    /\ active_command.cmd = "H1"
    /\ completion[active_command.completion] = Unresolved

\* C5: the first matching reply resolves the awaiting call; a later matching
\* reply changes nothing and raises nothing, and the call ends with the
\* outcome of the first one.
FirstReplyWins ==
    /\ \A p \in ReplyParams :
          ~Unmatched(p) /\ Handles(p) =>
              LET g == active_command.completion
              IN  /\ completion' =
                        IF completion[g] = Unresolved
                        THEN [completion EXCEPT ![g] = << MCUResponse(p) >>]
                        ELSE completion
                  /\ active_command' = active_command
                  /\ last_weight_grams' = last_weight_grams
                  /\ pc' = pc
                  /\ result' = NoOutcome
    /\ \A g \in Callers :
          (GetLoadCellWeightWake(g) \/ LoadCellCalibrateWake(g))
          /\ completion[g] # Unresolved =>
              /\ result'.status = completion[g][1].status
              /\ result'.raw = completion[g][1].raw_response

C5_FirstReplyWins == [][FirstReplyWins]_vars

\* A matching reply just arrived for a call that was already resolved.
C5_Witness ==
    /\ handled = "duplicate"
    /\ active_command # None
    /\ completion[active_command.completion] # Unresolved

\* C6: a call whose wait returns a reply returns that reply when its status
\* is ok, and otherwise raises RemoteError carrying the command name, the
\* status and the raw diagnostic text of the reply.
ReplyOutcome ==
    \A g \in Callers :
        Wakes(g) /\ completion[g] # Unresolved =>
            LET r == completion[g][1]
                plain == GetLoadCellWeightWake(g) \/ LoadCellCalibrateWake(g)
            IN  /\ r.status = "ok" /\ plain =>
                      /\ result'.kind = "ok"
                      /\ result'.task = g
                      /\ result'.cmd = r.command_name
                      /\ result'.status = r.status
                      /\ result'.raw = r.raw_response
                      /\ result'.value = r.value
                /\ r.status = "ok" /\ ~plain =>
                      result'.kind \notin {"RemoteError", "Timeout"}
                /\ r.status # "ok" =>
                      /\ result'.kind = "RemoteError"
                      /\ result'.task = g
                      /\ result'.cmd = cmd_enum[g]
                      /\ result'.cmd = r.command_name
                      /\ result'.status = r.status
                      /\ result'.raw = r.raw_response

C6_ReplyOutcome == [][ReplyOutcome]_vars

\* A call just raised RemoteError for a reply with status "error".
C6_Witness ==
    /\ result.kind = "RemoteError"
    /\ result.status = "error"
    /\ result.raw = "E1"
    /\ result.cmd = "H7"
    /\ result.wrap = ""

\* C7: tare makes attempts while the time is before its deadline, each an
\* H1 call followed by an H7 call; it succeeds at the first reading whose
\* magnitude is at most tare_threshold and reports that reading, pauses
\* TarePause after any other reading, and raises TareTimeout once the
\* deadline is reached without such a reading.
TareLog ==
    /\ result.kind = "TareOk" =>
          LET n == Len(result.log)
          IN  /\ n >= 1
              /\ result.value = result.log[n]
              /\ Abs(result.log[n]) <= tare_threshold
              /\ \A i \in 1..(n - 1) : Abs(result.log[i]) > tare_threshold
    /\ result.kind = "TareTimeout" =>
          \A i \in 1..Len(result.log) : Abs(result.log[i]) > tare_threshold
    /\ \A g \in Callers :
          \A i \in 1..Len(tare_log[g]) : Abs(tare_log[g][i]) > tare_threshold

TareSteps ==
    \A g \in Callers :
        /\ pc'[g] = "tare_h1" /\ pc[g] # "tare_h1" =>
              /\ sent' = << Msg("H1", g, <<>>) >>
              /\ now < tare_deadline'[g]
        /\ pc'[g] = "tare_h7" /\ pc[g] # "tare_h7" =>
              /\ pc[g] = "tare_h1"
              /\ completion[g] # Unresolved
              /\ completion[g][1].status = "ok"
              /\ sent' = << Msg("H7", g, <<>>) >>
        /\ CmdLoadCellTare(g) /\ pc'[g] # "idle" =>
              tare_deadline'[g] = now + tare_timeout
        /\ pc[g] # "idle" /\ pc'[g] # "idle" =>
              tare_deadline'[g] = tare_deadline[g]
        /\ TareH7Wake(g) /\ completion[g] # Unresolved
           /\ completion[g][1].status = "ok" =>
              LET v == completion[g][1].value
              IN  IF Abs(v) <= tare_threshold
                  THEN /\ result'.kind = "TareOk"
                       /\ result'.task = g
                       /\ result'.value = v
                       /\ pc'[g] = "idle"
                  ELSE /\ result' = NoOutcome
                       /\ pc'[g] = "tare_pause"
                       /\ wait_deadline'[g] = now + TarePause
                       /\ tare_log'[g] = Append(tare_log[g], v)
        /\ TarePauseWake(g) =>
              /\ now = wait_deadline[g]
              /\ result'.kind = "TareTimeout" <=> now >= tare_deadline[g]
        /\ result'.kind = "TareTimeout" /\ result'.task = g =>
              \/ CmdLoadCellTare(g) /\ tare_timeout = 0
              \/ TarePauseWake(g) /\ now >= tare_deadline[g]

C7_Tare == []TareLog /\ [][TareSteps]_vars

\* Readings 40, 12 and 4 against a threshold of 5: the third attempt
\* succeeds and reports 4.
C7_Witness ==
    /\ result.kind = "TareOk"
    /\ result.log = << 40, 12, 4 >>
    /\ result.value = 4
    /\ tare_threshold = 5

\* C7 as stated: tare reports success only for a reading obtained before
\* its deadline. The deadline is tested between attempts only.
SuccessBeforeDeadline ==
    \A g \in Callers :
        result'.kind = "TareOk" /\ result'.task = g => now < tare_deadline[g]

C7_AsStated == [][SuccessBeforeDeadline]_vars

\* The reading the tick compares is above max_force and the policy applies.
Acts ==
    /\ last_weight_grams > max_force
    /\ ~check_only_when_printing \/ is_printing

\* C8: a tick transmits at most the H7 poll, and only when the slot is
\* empty; it leaves the slot, every completion and every suspended call as
\* they were and reports nothing to a caller; a tick that runs while a call
\* is awaiting transmits nothing and still applies the overload policy.
TickIsolated ==
    SampleTick =>
        /\ sent' # <<>> =>
              active_command = None /\ sent' = << Msg("H7", "poll", <<>>) >>
        /\ active_command' = active_command
        /\ completion' = completion
        /\ pc' = pc
        /\ cmd_enum' = cmd_enum
        /\ wait_deadline' = wait_deadline
        /\ last_weight_grams' = last_weight_grams
        /\ result' = NoOutcome
        /\ active_command # None =>
              /\ sent' = <<>>
              /\ Acts /\ overload_action = "shutdown" => safety' = "shutdown"
              /\ Acts /\ overload_action = "pause" /\ ~is_paused =>
                    safety' = "pause"

C8_TickIsolated == [][TickIsolated]_vars

\* A tick just requested a pause while the call of the operator task is
\* awaiting its reply, and transmitted nothing.
C8_Witness ==
    /\ safety = "pause"
    /\ sent = <<>>
    /\ InCall(Operator)
    /\ active_command = PendingCall(Operator)

\* C9: a safety action is taken only by a tick whose reading is above
\* max_force while check_only_when_printing is false or a job is active;
\* such a tick takes the configured action and no other, except that under
\* the pause action it takes none when the job is already paused.
SafetyGuard ==
    /\ safety' # "" => SampleTick /\ Acts
    /\ SampleTick /\ Acts =>
          safety' = IF overload_action = "shutdown" THEN "shutdown"
                    ELSE IF is_paused THEN ""
                    ELSE "pause"
    /\ SampleTick =>
          /\ is_shutdown' = (is_shutdown \/ safety' = "shutdown")
          /\ is_paused' = (is_paused \/ safety' = "pause")

C9_SafetyGuard == [][SafetyGuard]_vars

\* check_only_when_printing is set, a job is active and the tick just shut
\* the printer down for a reading of 40 against a max_force of 12.
C9_Witness ==
    /\ safety = "shutdown"
    /\ check_only_when_printing
    /\ is_printing
    /\ last_weight_grams = 40
    /\ max_force = 12

\* C9 as stated: every tick whose reading is above max_force while the
\* policy applies takes exactly the configured action.
ExactlyOneAction ==
    /\ safety' # "" => SampleTick /\ Acts
    /\ SampleTick /\ Acts => safety' = overload_action

C9_AsStated == [][ExactlyOneAction]_vars

\* C10: after the shutdown action the sampler timer is never scheduled
\* again; under the pause action a tick requests a pause exactly when it
\* acts and the job is not yet paused, and every such tick reschedules the
\* timer for now + sample_interval.
HaltStops ==
    /\ is_shutdown => sample_timer = NEVER
    /\ sample_timer = NEVER => ~ENABLED SampleTick

PauseReschedules ==
    SampleTick =>
        /\ safety' = "shutdown" => sample_timer' = NEVER /\ observed' = <<>>
        /\ overload_action = "pause" =>
              /\ safety' = "pause" <=> Acts /\ ~is_paused
              /\ sample_timer' = now + sample_interval

C10_AsStated == []HaltStops /\ [][PauseReschedules]_vars

\* C11: every tick that does not shut the printer down hands the sampled
\* reading to a registered observer callback and reschedules the timer for
\* now + sample_interval, whether or not the device time can be estimated.
ObserverSurvives ==
    SampleTick /\ safety' # "shutdown" =>
        /\ callback =>
              /\ observed' # <<>>
              /\ observed'[1].weight = last_weight_grams
        /\ sample_timer' = now + sample_interval

C11_AsStated == [][ObserverSurvives]_vars

\* A step in which SET_MAX_FORCE runs with these parameters.
SetsMaxForce(reset, force, action) ==
    /\ result'.kind \in {"MaxForceReset", "MaxForceChanged", "InvalidForce",
                         "InvalidAction"}
    /\ SetLoadcellMaxForce(reset, force, action)

\* C12: no step changes the stored defaults, and a SET_MAX_FORCE with RESET
\* set leaves max_force and overload_action at the stored defaults whatever
\* its other parameters and whatever commands ran before it.
ResetRestores ==
    /\ default_max_force' = default_max_force
    /\ default_overload_action' = default_overload_action
    /\ \A force \in ForceParams, action \in ActionArgs :
          SetsMaxForce(1, force, action) =>
              /\ max_force' = default_max_force
              /\ overload_action' = default_overload_action
              /\ result'.kind = "MaxForceReset"

C12_ResetRestores ==
    /\ default_max_force \in ConfigMaxForces
    /\ default_overload_action \in OverloadActions
    /\ [][ResetRestores]_vars

\* A reset just restored the configured shutdown action after the sampler
\* had paused the job under an action changed to pause.
C12_Witness ==
    /\ result.kind = "MaxForceReset"
    /\ is_paused
    /\ default_overload_action = "shutdown"
    /\ overload_action = "shutdown"
    /\ max_force = default_max_force

\* C13: a SET_MAX_FORCE without RESET whose ACTION is neither shutdown nor
\* pause, with FORCE absent or valid, raises the error and changes neither
\* overload_action nor max_force.
InvalidActionRejected ==
    \A force \in ForceParams, action \in ActionArgs :
        /\ action # <<>>
        /\ action[1] \notin {"shutdown", "pause"}
        /\ force = <<>> \/ force[1] >= 0
        /\ SetsMaxForce(0, force, action)
        => /\ result'.kind = "InvalidAction"
           /\ max_force' = max_force
           /\ overload_action' = overload_action

AcceptedActions == overload_action \in {"shutdown", "pause"}

C13_InvalidAction == []AcceptedActions /\ [][InvalidActionRejected]_vars

\* ACTION=halt was just rejected.
C13_Witness ==
    /\ result.kind = "InvalidAction"
    /\ overload_action \in {"shutdown", "pause"}

\* C13 as stated: every SET_MAX_FORCE whose ACTION is neither shutdown nor
\* pause raises the error and changes nothing, RESET set or not.
AnyInvalidActionRejected ==
    \A reset \in {0, 1}, force \in ForceParams, action \in ActionArgs :
        /\ action # <<>>
        /\ action[1] \notin {"shutdown", "pause"}
        /\ SetsMaxForce(reset, force, action)
        => /\ result'.kind \in {"InvalidAction", "InvalidForce"}
           /\ max_force' = max_force
           /\ overload_action' = overload_action

C13_AsStated == [][AnyInvalidActionRejected]_vars

\* The MCU command name of a transmitted message.
SentName ==
    CHOOSE name \in McuCmdNames : MCU_CMD_MAP(name) = sent[1].cmd

\* C14: connect stores a handle for every required command the link has up
\* to the first one it lacks and, when one is lacking, raises the error that
\* names it; a second run of connect leaves the registry as it is; every
\* message transmitted is of a command in the registry, and a _send_and_wait
\* for a command that is not raises NotFound, transmits nothing and leaves
\* the slot empty.
RegistryResolved ==
    /\ supported_cmds \subseteq fw_cmds
    /\ phase \in {"loadcell", "ready"} => supported_cmds = McuCmdNames
    /\ phase = "failed" => ~(McuCmdNames \subseteq fw_cmds)
    /\ result.kind = "MissingCommand" =>
          /\ result.cmd \in McuCmdNames \ fw_cmds
          /\ result.cmd \notin supported_cmds
    /\ sent # <<>> => SentName \in supported_cmds

NotFoundRejected ==
    /\ LoadCellConnect /\ ~(McuCmdNames \subseteq fw_cmds) =>
          result'.kind = "MissingCommand" /\ phase' = "failed"
    /\ LoadCellConnect /\ McuCmdNames \subseteq fw_cmds =>
          result' = NoOutcome /\ supported_cmds' = McuCmdNames
    /\ LoadCellReconnect => supported_cmds' = supported_cmds
    /\ \A g \in Callers :
          /\ CmdGetLoadCellWeight(g) /\ active_command = None
             /\ MCU_CMD_FLASHFORGE_H7 \notin supported_cmds =>
                /\ result'.kind = "NotFound"
                /\ result'.cmd = MCU_CMD_FLASHFORGE_H7
                /\ active_command' = None
                /\ sent' = <<>>
                /\ pc'[g] = "idle"
          /\ CmdLoadCellCalibrate(g) /\ active_command = None
             /\ MCU_CMD_FLASHFORGE_H2 \notin supported_cmds =>
                /\ result'.kind = "NotFound"
                /\ result'.cmd = MCU_CMD_FLASHFORGE_H2
                /\ active_command' = None
                /\ sent' = <<>>
                /\ pc'[g] = "idle"

C14_Registry == []RegistryResolved /\ [][NotFoundRejected]_vars

\* On a firmware without the H7 command, connect failed and a
\* GET_LOAD_CELL_WEIGHT was just rejected with NotFound.
C14_Witness ==
    /\ phase = "failed"
    /\ result.kind = "NotFound"
    /\ result.cmd = MCU_CMD_FLASHFORGE_H7
    /\ MCU_CMD_FLASHFORGE_H1 \in supported_cmds
    /\ active_command = None

\* A raw text field that is absent or cannot be decoded.
NoText(field) == field[1] \in {"none", "bad"}

\* C15: the load cell handler runs to its end on every reply; the reply it
\* decodes has value 0 for an absent value or one int() rejects, status
\* "unknown" for an absent or undecodable status, and for an absent or
\* undecodable command a name that is no member of Commands, and such a reply
\* resolves no call. The air-quality handler stores status "unknown" and 0
\* for tvoc, co2 and hcho in the same cases.
DecodeDefaults ==
    /\ decode_params \in LoadCellDicts =>
          ENABLED LoadCellReplyDecoded
    /\ decode_params \in TvocDicts =>
          ENABLED TvocResponseArrives
    /\ decoded # <<>> =>
          LET p == decode_params.fields
              r == decoded[1]
          IN  /\ r.value = IF p.value[1] \in {"int", "numstr"}
                           THEN p.value[2] ELSE 0
              /\ r.status = IF NoText(p.status) THEN "unknown"
                            ELSE p.status[2]
              /\ r.raw_response = IF NoText(p.raw_response) THEN ""
                                  ELSE p.raw_response[2]
              /\ r.command_name = IF NoText(p.command) THEN ""
                                  ELSE p.command[2]
              /\ NoText(p.command) => r.command_name \notin Commands
    /\ handled = "tvoc" =>
          LET p == decode_params.fields
              junk == \E f \in {p.tvoc, p.co2, p.hcho} : f[1] = "junk"
              int(f) == IF junk \/ f[1] = "none" THEN 0 ELSE f[2]
          IN  /\ last_status = IF NoText(p.status) THEN "unknown"
                               ELSE p.status[2]
              /\ last_tvoc_value = int(p.tvoc)
              /\ last_co2_value = int(p.co2)
              /\ last_hcho_value = int(p.hcho)

NoIdentityNoMatch ==
    LoadCellReplyDecoded =>
        /\ result' = NoOutcome
        /\ NoText(decode_params.fields.command) =>
              /\ completion' = completion
              /\ handled' \in {"reading", "dropped"}

C15_WitnessTvoc ==
    /\ handled = "tvoc"
    /\ decode_params.fields.tvoc = <<"int", 7>>
    /\ decode_params.fields.co2 = <<"junk", 99>>
    /\ last_tvoc_value = 0

\* C16: handling a reply whose command is the one the current call awaits
\* leaves last_weight_grams as it was, whatever the reply's status and
\* whether or not the call was already resolved.
MatchedReplyConsumed ==
    /\ LoadCellReplyDecoded
    /\ active_command # None
    /\ Matches(MCUResponse(decode_params.fields), active_command)
    => /\ last_weight_grams' = last_weight_grams
       /\ handled' \in {"resolved", "duplicate"}

C16_Consumed == [][MatchedReplyConsumed]_vars

\* An ok H7 reply carrying a value other than the last reading was just
\* handled a second time while the GET_LOAD_CELL_WEIGHT call it matches is
\* still awaiting its wake-up.
C16_Witness ==
    /\ handled = "duplicate"
    /\ active_command # None
    /\ active_command.cmd = "H7"
    /\ decoded[1].command_name = "H7"
    /\ decoded[1].status = "ok"
    /\ decoded[1].value # last_weight_grams

\* C17: the reply to a call that timed out, arriving after the timeout,
\* resolves no call: it is handled on the unsolicited path.
LateReplyUnsolicited ==
    handled' # "" /\ LateReplyArrives =>
        /\ handled' \in {"reading", "dropped"}
        /\ completion' = completion

C17_AsStated == [][LateReplyUnsolicited]_vars

\* C18: the reply to a poll of the sampler resolves no call: it is handled
\* on the unsolicited path and changes last_weight_grams at most.
PollReplyUnsolicited ==
    handled' # "" /\ PollReplyArrives =>
        /\ handled' \in {"reading", "dropped"}
        /\ completion' = completion

C18_AsStated == [][PollReplyUnsolicited]_vars

\* C19: when a correlated H7 call returns its ok reply, to
\* GET_LOAD_CELL_WEIGHT or to the read step of LOAD_CELL_TARE,
\* last_weight_grams is the value of that reply.
ReadUpdatesReading ==
    \A g \in Callers :
        /\ pc[g] \in {"get_weight", "tare_h7"}
        /\ pc'[g] # pc[g]
        /\ GetLoadCellWeightWake(g) \/ TareH7Wake(g)
        /\ completion[g] # Unresolved
        /\ completion[g][1].status = "ok"
        => last_weight_grams' = completion[g][1].value

C19_AsStated == [][ReadUpdatesReading]_vars

\* Task g is inside cmd_LOAD_CELL_TARE.
InTare(g) == pc[g] \in {"tare_h1", "tare_h7", "tare_pause"}

\* The step ends the tare of task g.
TareTerminates(g) ==
    /\ pc'[g] = "idle"
    /\ result'.task = g
    /\ InTare(g) \/ (pc[g] = "idle" /\ CmdLoadCellTare(g))

\* The step transmits cmd for the tare of task g.
TareSends(g, cmd) ==
    /\ sent' = << Msg(cmd, g, <<>>) >>
    /\ pc'[g] \in {"tare_h1", "tare_h7"}

\* C20: tare transmits H7 only when the H1 call of the attempt returned an
\* ok reply; it transmits H1 only at its start or after a reading above the
\* threshold, and only before its deadline, so that with tare_timeout 0 it
\* raises TareTimeout without transmitting; a step that fails by Timeout,
\* RemoteError or Conflict ends tare at once with "Tare step failed" and
\* without another transmission; and when tare ends the slot holds no call
\* of the tare: it is empty, or it holds the call of another task.
TareOrdered ==
    \A g \in Callers :
        /\ TareSends(g, "H7") =>
              /\ pc[g] = "tare_h1"
              /\ completion[g] # Unresolved
              /\ completion[g][1].status = "ok"
        /\ TareSends(g, "H1") =>
              /\ now < tare_deadline'[g]
              /\ tare_deadline'[g] =
                    IF pc[g] = "idle" THEN now + tare_timeout
                                      ELSE tare_deadline[g]
              /\ \/ pc[g] = "idle"
                 \/ /\ pc[g] = "tare_pause"
                    /\ tare_log[g] # <<>>
                    /\ Abs(tare_log[g][Len(tare_log[g])]) > tare_threshold
        /\ InTare(g) /\ sent' # <<>> /\ sent'[1].src = g =>
              TareSends(g, "H1") \/ TareSends(g, "H7")
        /\ tare_timeout = 0 /\ pc[g] = "idle" /\ result'.task = g
           /\ CmdLoadCellTare(g) =>
              /\ result'.kind = "TareTimeout"
              /\ sent' = <<>>
              /\ pc'[g] = "idle"
        /\ pc[g] \in {"tare_h1", "tare_h7"} /\ pc'[g] # pc[g]
           /\ (completion[g] = Unresolved \/ completion[g][1].status # "ok") =>
              /\ TareTerminates(g)
              /\ result'.kind = IF completion[g] = Unresolved
                                THEN "Timeout" ELSE "RemoteError"
        /\ pc[g] = "tare_pause" /\ pc'[g] # pc[g] /\ now < tare_deadline[g]
           /\ active_command # None =>
              /\ TareTerminates(g)
              /\ result'.kind = "Conflict"
        /\ pc[g] = "idle" /\ result'.task = g /\ CmdLoadCellTare(g)
           /\ tare_timeout > 0 /\ active_command # None =>
              /\ TareTerminates(g)
              /\ result'.kind = "Conflict"
        /\ TareTerminates(g) =>
              /\ sent' = <<>>
              /\ result'.kind \in {"Timeout", "RemoteError", "Conflict",
                                   "NotFound"}
                    => result'.wrap = "Tare step failed"
              /\ result'.kind = "TareTimeout" => now >= tare_deadline[g]
              /\ \/ active_command' = None
                 \/ /\ active_command' = active_command
                    /\ active_command.completion # g
                    /\ InCall(active_command.completion)

C20_TareOrdered == [][TareOrdered]_vars

\* Tare met the conflict error at its second attempt: the slot holds the
\* call another task began during the pause.
C20_Witness ==
    /\ result.kind = "Conflict"
    /\ result.wrap = "Tare step failed"
    /\ result.log # <<>>
    /\ active_command # None
    /\ pc[Operator] = "idle"

\* C20 as stated: every tare invocation ends with the slot empty.
TareEndsSlotEmpty ==
    \A g \in Callers : TareTerminates(g) => active_command' = None

C20_AsStated == [][TareEndsSlotEmpty]_vars

====
